---------------------------- MODULE Spec2Model ----------------------------
(***************************************************************************)
(* A model of pyTSEB's ClumpingIndex.py: CalcOmega0_Kustas (nadir clumping *)
(* factor) and CalcOmega_Kustas (clumping index at an incidence angle).    *)
(*                                                                         *)
(* Numbers are binary floating-point values with IEEE-754 special values   *)
(* (NaN, signed infinities, signed zeros, subnormals), the exponent ranges *)
(* of binary64 and binary32, round-to-nearest-even, and a significand of   *)
(* Prec64 resp. Prec32 bits (the real formats carry 53 and 24 bits).       *)
(* Python objects are Python floats ("py"), numpy scalars ("np") or        *)
(* references to ndarrays on a heap ("arr").                               *)
(***************************************************************************)
EXTENDS Integers, Sequences, FiniteSets, TLC

\* Significand widths of the modelled float64 and float32 formats.
Prec64 == 11
Prec32 == 8
\* Longest ndarray the caller passes.
MaxLen == 2

(***************************************************************************)
(* Floating-point formats                                                  *)
(***************************************************************************)
PrecOf(dt) == IF dt = "f32" THEN Prec32 ELSE Prec64
EMaxOf(dt) == IF dt = "f32" THEN 127 ELSE 1023
EMinOf(dt) == IF dt = "f32" THEN -126 ELSE -1022

\* A float is [k, s, m, e]: kind, sign (1 or -1), and for k = "fin" the value
\* s * m * 2^e with m odd (the canonical form of a nonzero finite value).
NaN == [k |-> "nan", s |-> 1, m |-> 0, e |-> 0]
Inf(s) == [k |-> "inf", s |-> s, m |-> 0, e |-> 0]
Zero(s) == [k |-> "zero", s |-> s, m |-> 0, e |-> 0]
Fin(s, m, e) == [k |-> "fin", s |-> s, m |-> m, e |-> e]

RECURSIVE BitLen(_)
BitLen(n) == IF n = 0 THEN 0 ELSE 1 + BitLen(n \div 2)

RECURSIVE Canon(_, _, _)
Canon(s, m, e) ==
  IF m = 0 THEN Zero(s)
  ELSE IF m % 2 = 0 THEN Canon(s, m \div 2, e + 1)
  ELSE Fin(s, m, e)

\* Exponent of the last bit of a subnormal.
EMinU(dt) == EMinOf(dt) - (PrecOf(dt) - 1)

\* q, the kept bits, moved to the nearest value, ties to even: rem are the
\* bits dropped, half their midpoint.
RoundQ(q, rem, half, sticky) ==
  IF rem > half \/ (rem = half /\ (sticky \/ q % 2 = 1)) THEN q + 1 ELSE q

\* The rounded significand m1 at exponent e: zero, a float, or overflow.
Pack(dt, s, m1, e) ==
  IF m1 = 0 THEN Zero(s)
  ELSE IF e + BitLen(m1) - 1 > EMaxOf(dt) THEN Inf(s)
  ELSE Canon(s, m1, e)

\* Round with sh low bits of the L-bit M dropped.
RoundSh(dt, s, M, E, sticky, L, sh) ==
  IF M = 0 THEN Zero(s)
  ELSE IF sh <= 0 THEN (IF E + L - 1 > EMaxOf(dt) THEN Inf(s) ELSE Canon(s, M, E))
  ELSE IF sh > L THEN Zero(s)
  ELSE Pack(dt, s, RoundQ(M \div (2 ^ sh), M % (2 ^ sh), 2 ^ (sh - 1), sticky), E + sh)

RoundL(dt, s, M, E, sticky, L) ==
  RoundSh(dt, s, M, E, sticky, L,
          IF E + (L - PrecOf(dt)) < EMinU(dt) THEN EMinU(dt) - E ELSE L - PrecOf(dt))

\* Round s * M * 2^E (plus a nonzero tail below M's last bit when sticky) to the
\* nearest value of format dt, ties to even; overflow gives infinity, underflow
\* goes through the subnormals to zero.
Round(dt, s, M, E, sticky) == RoundL(dt, s, M, E, sticky, BitLen(M))

\* Conversion of a value to format dt (ndarray.astype, or a Python scalar
\* entering an operation on a float32 array).
Cast(dt, x) == IF x.k = "fin" THEN Round(dt, x.s, x.m, x.e, FALSE) ELSE x

\* A decimal literal of the source: s * m * 2^e, m the leading bits of the
\* literal, sticky when bits of the literal lie below them; a Python float.
Lit(s, m, e, sticky) == Round("f64", s, m, e, sticky)

One == Fin(1, 1, 0)

\* The significand scaled to exactly Prec64 bits, with its exponent.
NormM(x) == x.m * 2 ^ (Prec64 - BitLen(x.m))
NormE(x) == x.e - (Prec64 - BitLen(x.m))

FNeg(x) == IF x.k = "nan" THEN x ELSE [x EXCEPT !.s = -x.s]

AddSum(dt, s, sum, e) ==
  IF sum = 0 THEN Zero(1)
  ELSE IF sum > 0 THEN Round(dt, s, sum, e, FALSE)
  ELSE Round(dt, -s, -sum, e, FALSE)

\* hi + lo, lo's leading bit d places below hi's.  A lo below hi's guard bits
\* only decides the rounding direction.
AddAligned(dt, hi, lo, d) ==
  IF d > Prec64 + 2
    THEN Round(dt, hi.s, IF hi.s = lo.s THEN 4 * NormM(hi) ELSE 4 * NormM(hi) - 1,
               NormE(hi) - 2, TRUE)
  ELSE AddSum(dt, hi.s,
              IF hi.s = lo.s THEN NormM(hi) * 2 ^ d + NormM(lo)
              ELSE NormM(hi) * 2 ^ d - NormM(lo),
              NormE(lo))

AddFin(dt, x, y) ==
  IF NormE(x) >= NormE(y) THEN AddAligned(dt, x, y, NormE(x) - NormE(y))
  ELSE AddAligned(dt, y, x, NormE(y) - NormE(x))

AddCore(dt, x, y) ==
  IF x.k = "nan" \/ y.k = "nan" THEN NaN
  ELSE IF x.k = "inf" THEN (IF y.k = "inf" /\ y.s # x.s THEN NaN ELSE x)
  ELSE IF y.k = "inf" THEN y
  ELSE IF x.k = "zero" THEN (IF y.k = "zero" THEN (IF x.s = y.s THEN x ELSE Zero(1)) ELSE y)
  ELSE IF y.k = "zero" THEN x
  ELSE AddFin(dt, x, y)

FAdd(dt, x, y) == AddCore(dt, Cast(dt, x), Cast(dt, y))
FSub(dt, x, y) == AddCore(dt, Cast(dt, x), FNeg(Cast(dt, y)))

MulCore(dt, x, y) ==
  IF x.k = "nan" \/ y.k = "nan" THEN NaN
  ELSE IF x.k = "inf" \/ y.k = "inf"
    THEN (IF x.k = "zero" \/ y.k = "zero" THEN NaN ELSE Inf(x.s * y.s))
  ELSE IF x.k = "zero" \/ y.k = "zero" THEN Zero(x.s * y.s)
  ELSE Round(dt, x.s * y.s, x.m * y.m, x.e + y.e, FALSE)

FMul(dt, x, y) == MulCore(dt, Cast(dt, x), Cast(dt, y))

\* a / b at exponent e, the remainder deciding the rounding.
DivQ(dt, s, a, b, e) == Round(dt, s, a \div b, e, a % b # 0)

\* IEEE division (numpy's): x/0 is an infinity, 0/0 and inf/inf are NaN.
DivCore(dt, x, y) ==
  IF x.k = "nan" \/ y.k = "nan" THEN NaN
  ELSE IF x.k = "inf" THEN (IF y.k = "inf" THEN NaN ELSE Inf(x.s * y.s))
  ELSE IF y.k = "inf" THEN Zero(x.s * y.s)
  ELSE IF y.k = "zero" THEN (IF x.k = "zero" THEN NaN ELSE Inf(x.s * y.s))
  ELSE IF x.k = "zero" THEN Zero(x.s * y.s)
  ELSE DivQ(dt, x.s * y.s, NormM(x) * 2 ^ (Prec64 + 2), NormM(y),
            NormE(x) - NormE(y) - (Prec64 + 2))

FDiv(dt, x, y) == DivCore(dt, Cast(dt, x), Cast(dt, y))

\* Order on floats; every comparison with NaN is false.
NotPositive(d) == d.k = "zero" \/ (d.k # "nan" /\ d.s = -1)
FLe(x, y) ==
  /\ x.k # "nan" /\ y.k # "nan"
  /\ (x = y \/ NotPositive(FSub("f64", x, y)))
FLt(x, y) == FLe(x, y) /\ ~FLe(y, x)
IsFinite(x) == x.k \in {"zero", "fin"}

(***************************************************************************)
(* Elementary functions.  exp and log are evaluated in fixed point with    *)
(* FixQ fractional bits and rounded to the format, so they are accurate to *)
(* about one unit in the last place, as the C library's are.               *)
(***************************************************************************)
FixQ == Prec64 + 3

\* The integer nearest a/b (b > 0).
RDiv(a, b) == (2 * a + b) \div (2 * b)

\* n * ln(2) in fixed point; 744261118 is ln(2) * 2^30.
NLn2(n) ==
  n * (744261118 \div 2 ^ (30 - FixQ))
    + (n * (744261118 % 2 ^ (30 - FixQ))) \div 2 ^ (30 - FixQ)

\* x * 2^FixQ rounded to an integer, for 2^-(FixQ+1) <= |x| < 2^11.
ToFix(x) ==
  IF x.e + FixQ >= 0 THEN x.s * x.m * 2 ^ (x.e + FixQ)
  ELSE x.s * RDiv(x.m, 2 ^ (-(x.e + FixQ)))

\* Exponent of the leading bit of a finite nonzero value.
TopExp(x) == x.e + BitLen(x.m) - 1

RECURSIVE ExpSeries(_, _, _)
ExpSeries(r, term, k) ==
  IF term = 0 THEN 0
  ELSE term + ExpSeries(r, RDiv(term * r, (k + 1) * 2 ^ FixQ), k + 1)

\* exp(n*ln2 + r) = 2^n * (1 + r + r^2/2 + ...), |r| <= ln(2)/2.
ExpSum(dt, n, r) == Round(dt, 1, 2 ^ FixQ + ExpSeries(r, r, 1), n - FixQ, TRUE)
ExpRed(dt, xf, n) == ExpSum(dt, n, xf - NLn2(n))
ExpFix(dt, xf) == ExpRed(dt, xf, (2 * xf + NLn2(1)) \div (2 * NLn2(1)))

ExpCore(dt, x) ==
  IF x.k = "nan" THEN NaN
  ELSE IF x.k = "inf" THEN (IF x.s = 1 THEN Inf(1) ELSE Zero(1))
  ELSE IF x.k = "zero" THEN One
  ELSE IF TopExp(x) >= 11 THEN (IF x.s = 1 THEN Inf(1) ELSE Zero(1))
  ELSE IF TopExp(x) < -(FixQ + 1) THEN One
  ELSE ExpFix(dt, ToFix(x))

\* numpy.exp on an element of dtype dt.
FExp(dt, x0) == ExpCore(dt, Cast(dt, x0))

\* 2*atanh(z)/(2z) = 1 + z^2/3 + z^4/5 + ... in fixed point, |z| <= 0.172.
LogSeries4(z2, z4) ==
  2 ^ FixQ + RDiv(z2, 3) + RDiv(z4, 5) + RDiv(RDiv(z4 * z2, 2 ^ FixQ), 7)
    + RDiv(RDiv(z4 * z4, 2 ^ FixQ), 9)
LogSeries2(z2) == LogSeries4(z2, RDiv(z2 * z2, 2 ^ FixQ))
LogSeries(z) == LogSeries2(RDiv(z * z, 2 ^ FixQ))

\* log of a value away from 1: l = n*ln2 + 2*atanh(z) in fixed point.
LogFar(dt, l) ==
  Round(dt, IF l < 0 THEN -1 ELSE 1, IF l < 0 THEN -l ELSE l, -FixQ, TRUE)
LogFarZ(dt, n, z) == LogFar(dt, NLn2(n) + RDiv(2 * z * LogSeries(z), 2 ^ FixQ))

\* log of a value near 1: 2*z*g with z = an/den kept as a float, so that the
\* result is accurate relative to its own size.
LogNearZ(dt, zf, g) == Round(dt, zf.s, zf.m * g, zf.e - FixQ + 1, TRUE)
LogNearK(dt, s, an, den, g, k) ==
  LogNearZ(dt, Round("f64", s, (an * 2 ^ k) \div den, -k, (an * 2 ^ k) % den # 0), g)
LogNear(dt, s, an, den) ==
  LogNearK(dt, s, an, den, LogSeries(RDiv(s * an * 2 ^ FixQ, den)),
           Prec64 + 3 + BitLen(den) - BitLen(an))

\* log(2^n * f), z = (f - 1)/(f + 1) = num/den.
LogRed(dt, num, den, n) ==
  IF n # 0 THEN LogFarZ(dt, n, RDiv(num * 2 ^ FixQ, den))
  ELSE IF num = 0 THEN Zero(1)
  ELSE IF num < 0 THEN LogNear(dt, -1, -num, den)
  ELSE LogNear(dt, 1, num, den)

\* f in [1, 2) is halved when above sqrt(2).
LogNorm(dt, mN, n0) ==
  IF mN * mN > 2 ^ (2 * Prec64 - 1)
    THEN LogRed(dt, mN - 2 ^ Prec64, mN + 2 ^ Prec64, n0 + 1)
  ELSE LogRed(dt, mN - 2 ^ (Prec64 - 1), mN + 2 ^ (Prec64 - 1), n0)

LogCore(dt, x) ==
  IF x.k = "nan" THEN NaN
  ELSE IF x.k = "zero" THEN Inf(-1)
  ELSE IF x.s = -1 THEN NaN
  ELSE IF x.k = "inf" THEN Inf(1)
  ELSE LogNorm(dt, NormM(x), NormE(x) + Prec64 - 1)

\* numpy.log on an element of dtype dt: log(0) = -inf, log(x < 0) = NaN.
FLog(dt, x0) == LogCore(dt, Cast(dt, x0))

RECURSIVE IsqrtIter(_, _, _)
IsqrtIter(n, r, bit) ==
  IF bit = 0 THEN r
  ELSE IF (r + bit) * (r + bit) <= n THEN IsqrtIter(n, r + bit, bit \div 2)
  ELSE IsqrtIter(n, r, bit \div 2)

SqrtR(M, e, r) == Round("f64", 1, r, e, r * r # M)
SqrtM(M, e) == SqrtR(M, e, IsqrtIter(M, 0, 2 ^ 14))
SqrtK(x, k) == SqrtM(NormM(x) * 2 ^ k, (NormE(x) - k) \div 2)

\* math.sqrt on a Python float (a non-negative one: x_LAD**2 + tan(theta)**2).
FSqrt(x) ==
  IF x.k # "fin" THEN x
  ELSE IF x.s = -1 THEN NaN
  ELSE IF (NormE(x) - (Prec64 + 2)) % 2 = 0 THEN SqrtK(x, Prec64 + 2)
  ELSE SqrtK(x, Prec64 + 3)

IsInt(y) == y.k = "fin" /\ y.e >= 0
IsOddInt(y) == y.k = "fin" /\ y.e = 0

PowSign(x, y, r) == IF x.s = -1 /\ IsOddInt(y) THEN FNeg(r) ELSE r

\* x ** y on floats (C pow, which numpy.power and Python's float pow share):
\* the IEEE special cases, and exp(y * log|x|) otherwise.
PowCore(dt, x, y) ==
  IF y.k = "zero" THEN One
  ELSE IF x = One THEN One
  ELSE IF x.k = "nan" \/ y.k = "nan" THEN NaN
  ELSE IF x.k = "zero"
    THEN IF y.s = 1 THEN (IF IsOddInt(y) THEN x ELSE Zero(1))
         ELSE (IF IsOddInt(y) THEN Inf(x.s) ELSE Inf(1))
  ELSE IF x.k = "inf"
    THEN IF y.s = 1 THEN PowSign(x, y, Inf(1)) ELSE PowSign(x, y, Zero(1))
  ELSE IF y.k = "inf"
    THEN IF x.m = 1 /\ x.e = 0 THEN One
         ELSE IF (TopExp(x) < 0) = (y.s = 1) THEN Zero(1) ELSE Inf(1)
  ELSE IF x.s = -1 /\ ~IsInt(y) THEN NaN
  ELSE PowSign(x, y, FExp(dt, MulCore("f64", y, FLog("f64", [x EXCEPT !.s = 1]))))

FPow(dt, x0, y0) == PowCore(dt, Cast(dt, x0), Cast(dt, y0))

(***************************************************************************)
(* Python objects and numpy's element-wise operations                      *)
(***************************************************************************)
\* An object is a Python float, a numpy scalar of dtype dt, a reference to
\* the ndarray heap[id], or None (an unbound name).
None == [tag |-> "none", dt |-> "f64", v |-> Zero(1), id |-> 0]
PyF(v) == [tag |-> "py", dt |-> "f64", v |-> v, id |-> 0]
NpF(dt, v) == [tag |-> "np", dt |-> dt, v |-> v, id |-> 0]
Arr(id) == [tag |-> "arr", dt |-> "f64", v |-> Zero(1), id |-> id]
IsArr(o) == o.tag = "arr"

\* An operand element with its type: "py" (a Python float, which takes the
\* dtype of the array it meets), "f32" or "f64".
T(d, v) == [d |-> d, v |-> v]
PyC(v) == T("py", v)
Promote(d1, d2) ==
  IF d1 = "f64" \/ d2 = "f64" THEN "f64"
  ELSE IF d1 = "f32" \/ d2 = "f32" THEN "f32"
  ELSE "py"
FmtOf(d) == IF d = "f32" THEN "f32" ELSE "f64"
\* The result type of a numpy function: a Python float becomes float64.
NpD(d) == IF d = "py" THEN "f64" ELSE d

TNeg(a) == T(a.d, FNeg(a.v))
TAdd(a, b) == T(Promote(a.d, b.d), FAdd(FmtOf(Promote(a.d, b.d)), a.v, b.v))
TSub(a, b) == T(Promote(a.d, b.d), FSub(FmtOf(Promote(a.d, b.d)), a.v, b.v))
TMul(a, b) == T(Promote(a.d, b.d), FMul(FmtOf(Promote(a.d, b.d)), a.v, b.v))
TDiv(a, b) == T(Promote(a.d, b.d), FDiv(FmtOf(Promote(a.d, b.d)), a.v, b.v))
TPow(a, b) == T(Promote(a.d, b.d), FPow(FmtOf(Promote(a.d, b.d)), a.v, b.v))
TExp(a) == T(NpD(a.d), FExp(FmtOf(a.d), a.v))
TLog(a) == T(NpD(a.d), FLog(FmtOf(a.d), a.v))
\* numpy.radians: the angle times pi/180.
TRadians(a) == T(NpD(a.d), FMul(FmtOf(a.d), a.v, Lit(1, 9370165, -29, TRUE)))

ElemOf(o, h, i) ==
  IF o.tag = "arr" THEN T(h[o.id].dt, h[o.id].data[i])
  ELSE IF o.tag = "np" THEN T(o.dt, o.v)
  ELSE T("py", o.v)
LenOf(o, h) == IF o.tag = "arr" THEN Len(h[o.id].data) ELSE 1
MaxOf(a, b) == IF a >= b THEN a ELSE b

\* The value of an expression whose elements are el[1..n]: a new ndarray when
\* an operand was an ndarray, a scalar otherwise.
Alloc(h, anyArr, n, el) ==
  IF anyArr
    THEN [h |-> Append(h, [dt |-> FmtOf(el[1].d), data |-> [i \in 1..n |-> el[i].v]]),
          val |-> Arr(Len(h) + 1), exc |-> "none"]
  ELSE [h |-> h,
        val |-> IF el[1].d = "py" THEN PyF(el[1].v) ELSE NpF(el[1].d, el[1].v),
        exc |-> "none"]
Raise(h, e) == [h |-> h, val |-> None, exc |-> e]

(***************************************************************************)
(* CalcOmega0_Kustas, statement by statement                               *)
(***************************************************************************)
\* Lines 73-77: theta = radians(0.0), so tan(theta) = 0.0;
\* K_be = sqrt(x_LAD**2 + tan(theta)**2) / (x_LAD + 1.774*(x_LAD+1.182)**-0.733)
\* for a Python number x_LAD >= 0.
KbeOf(x) ==
  FDiv("f64",
       FSqrt(FAdd("f64", FMul("f64", x, x), FMul("f64", Zero(1), Zero(1)))),
       FAdd("f64", x,
            FMul("f64", Lit(1, 14881390, -23, TRUE),
                 FPow("f64", FAdd("f64", x, Lit(1, 9915334, -23, TRUE)),
                      Lit(-1, 12297699, -24, TRUE)))))
\* Python's float ** raises OverflowError where the C pow overflows.
Line77(h, x) ==
  IF x.v.k = "fin" /\ FMul("f64", x.v, x.v).k = "inf" THEN Raise(h, "OverflowError")
  ELSE [h |-> h, val |-> PyF(KbeOf(x.v)), exc |-> "none"]

\* Line 79 with the division written as a product: F = LAI*f_C.
Line79Times(h, lai, fc) ==
  Alloc(h, IsArr(lai) \/ IsArr(fc), MaxOf(LenOf(lai, h), LenOf(fc, h)),
        [i \in 1..MaxOf(LenOf(lai, h), LenOf(fc, h)) |->
           TMul(ElemOf(lai, h, i), ElemOf(fc, h, i))])

\* Line 79: F = LAI/f_C.  Two Python floats divide with Python's rule
\* (ZeroDivisionError); anything else divides element-wise with IEEE's.
Line79(h, lai, fc) ==
  IF lai.tag = "py" /\ fc.tag = "py" /\ fc.v.k = "zero"
    THEN Raise(h, "ZeroDivisionError")
  ELSE LET n == MaxOf(LenOf(lai, h), LenOf(fc, h))
       IN Alloc(h, IsArr(lai) \/ IsArr(fc), n,
                [i \in 1..n |-> TDiv(ElemOf(lai, h, i), ElemOf(fc, h, i))])

\* Line 81: F = LAI.astype(float): a float64 copy; a Python float has no astype.
Line81(h, lai) ==
  IF lai.tag = "py" THEN Raise(h, "AttributeError")
  ELSE LET n == LenOf(lai, h)
       IN Alloc(h, IsArr(lai), n,
                [i \in 1..n |-> T("f64", Cast("f64", ElemOf(lai, h, i).v))])

\* Line 83, one element: f_C*np.exp(-K_be * F)+(1.0-f_C)
Trans83(k, f, c) == TAdd(TMul(c, TExp(TMul(TNeg(k), f))), TSub(PyC(One), c))

\* Line 83 computed in place in f_C's buffer (trans = f_C; trans *= ...;
\* trans += ...) where f_C is an ndarray.
Line83InPlace(h, kbe, f, fc) ==
  IF fc.tag = "arr"
    THEN [h |-> [h EXCEPT ![fc.id].data =
                   [i \in DOMAIN @ |->
                      Cast(h[fc.id].dt,
                           Trans83(ElemOf(kbe, h, i), ElemOf(f, h, i),
                                   T(h[fc.id].dt, @[i])).v)]],
          val |-> fc, exc |-> "none"]
  ELSE Alloc(h, IsArr(f), LenOf(f, h),
             [i \in 1..LenOf(f, h) |->
                Trans83(ElemOf(kbe, h, i), ElemOf(f, h, i), ElemOf(fc, h, i))])

\* Line 83: trans = f_C*np.exp(-K_be * F)+(1.0-f_C)
Line83(h, kbe, f, fc) ==
  LET n == MaxOf(LenOf(f, h), LenOf(fc, h))
  IN Alloc(h, IsArr(f) \/ IsArr(fc), n,
           [i \in 1..n |-> Trans83(ElemOf(kbe, h, i), ElemOf(f, h, i), ElemOf(fc, h, i))])

\* Line 84 with a strict comparison: trans[trans<0] = 1e-36.
Line84Strict(h, tr) ==
  IF tr.tag # "arr" THEN Raise(h, "TypeError")
  ELSE [h |-> [h EXCEPT ![tr.id].data =
                 [i \in DOMAIN @ |->
                    IF FLt(@[i], Zero(1))
                      THEN Cast(h[tr.id].dt, Lit(1, 11150372, -143, TRUE))
                    ELSE @[i]]],
        val |-> tr, exc |-> "none"]

\* Line 84: trans[trans<=0] = 1e-36, an item assignment: in place on an
\* ndarray, a TypeError on a scalar.
Line84(h, tr) ==
  IF tr.tag # "arr" THEN Raise(h, "TypeError")
  ELSE [h |-> [h EXCEPT ![tr.id].data =
                 [i \in DOMAIN @ |->
                    IF FLe(@[i], Zero(1))
                      THEN Cast(h[tr.id].dt, Lit(1, 11150372, -143, TRUE))
                    ELSE @[i]]],
        val |-> tr, exc |-> "none"]

\* Line 86 without the extinction coefficient: omega0 = -np.log(trans)/F.
Line86NoKbe(h, tr, f, kbe) ==
  Alloc(h, IsArr(tr) \/ IsArr(f), MaxOf(LenOf(tr, h), LenOf(f, h)),
        [i \in 1..MaxOf(LenOf(tr, h), LenOf(f, h)) |->
           TDiv(TNeg(TLog(ElemOf(tr, h, i))), ElemOf(f, h, i))])
\* Line 86 without the sign: omega0 = np.log(trans)/(F*K_be).
Line86NoNeg(h, tr, f, kbe) ==
  Alloc(h, IsArr(tr) \/ IsArr(f), MaxOf(LenOf(tr, h), LenOf(f, h)),
        [i \in 1..MaxOf(LenOf(tr, h), LenOf(f, h)) |->
           TDiv(TLog(ElemOf(tr, h, i)), TMul(ElemOf(f, h, i), ElemOf(kbe, h, i)))])

\* Line 86: omega0 = -np.log(trans)/(F*K_be)
Line86(h, tr, f, kbe) ==
  LET n == MaxOf(LenOf(tr, h), LenOf(f, h))
  IN Alloc(h, IsArr(tr) \/ IsArr(f), n,
           [i \in 1..n |->
              TDiv(TNeg(TLog(ElemOf(tr, h, i))),
                   TMul(ElemOf(f, h, i), ElemOf(kbe, h, i)))])

(***************************************************************************)
(* CalcOmega_Kustas, statement by statement                                *)
(***************************************************************************)
\* Line 118: wc = 1.0/wc
Line118(h, w) ==
  IF w.tag = "py" /\ w.v.k = "zero" THEN Raise(h, "ZeroDivisionError")
  ELSE LET n == LenOf(w, h)
       IN Alloc(h, IsArr(w), n, [i \in 1..n |-> TDiv(PyC(One), ElemOf(w, h, i))])

\* Line 119: omega = omega0 / (omega0 + (1.0 - omega0)
\*                     * np.exp(-2.2 * (np.radians(theta))**(3.8 - 0.46 * wc)))
Exponent119(w) ==
  TSub(PyC(Lit(1, 15938355, -22, TRUE)), TMul(PyC(Lit(1, 15435038, -25, TRUE)), w))
\* The gap term with the power outside the exponential:
\* np.exp(-2.2) * np.radians(theta)**(3.8 - 0.46*wc).
Gap119Outside(th, w) ==
  TMul(TExp(PyC(Lit(-1, 9227468, -22, TRUE))), TPow(TRadians(th), Exponent119(w)))
\* The gap term with the sign of 2.2 lost.
Gap119Plus(th, w) ==
  TExp(TMul(PyC(Lit(1, 9227468, -22, TRUE)), TPow(TRadians(th), Exponent119(w))))
Gap119(th, w) ==
  TExp(TMul(PyC(Lit(-1, 9227468, -22, TRUE)), TPow(TRadians(th), Exponent119(w))))
\* The ratio with 1.0 + omega0 for 1.0 - omega0.
Omega119Plus(o, g) == TDiv(o, TAdd(o, TMul(TAdd(PyC(One), o), g)))
Omega119(o, g) == TDiv(o, TAdd(o, TMul(TSub(PyC(One), o), g)))
Line119(h, om0, th, w) ==
  Alloc(h, IsArr(om0) \/ IsArr(th) \/ IsArr(w),
        MaxOf(LenOf(om0, h), MaxOf(LenOf(th, h), LenOf(w, h))),
        [i \in 1..MaxOf(LenOf(om0, h), MaxOf(LenOf(th, h), LenOf(w, h))) |->
           Omega119(ElemOf(om0, h, i), Gap119(ElemOf(th, h, i), ElemOf(w, h, i)))])

(***************************************************************************)
(* The caller's inputs                                                     *)
(***************************************************************************)
IntF(n) == Round("f64", 1, n, 0, FALSE)
\* The smallest positive float64.
MinSub == Fin(1, 1, EMinOf("f64") - (Prec64 - 1))
\* The float64 just below 1.
BelowOne == Fin(1, 2 ^ Prec64 - 1, -Prec64)

\* LAI: 0, the smallest subnormal, 1e-30, 2^-20, 0.25, 1, 2, 3, 250, 1424, 2000,
\* 1e300.
LAIVals ==
  << Zero(1), MinSub, Lit(1, 10633823, -123, TRUE), Fin(1, 1, -20), Fin(1, 1, -2),
     One, IntF(2), IntF(3), IntF(250), IntF(1424), IntF(2000),
     Lit(1, 12526052, 973, TRUE) >>
\* f_C: 0, 1e-30, 0.5, 1, 2.
fCVals == << Zero(1), Lit(1, 10633823, -123, TRUE), Fin(1, 1, -1), One, IntF(2) >>
\* x_LAD: 0, 0.5, 1 (the default), 2, 1e300.
xLADVals == { Zero(1), Fin(1, 1, -1), One, IntF(2), Lit(1, 12526052, 973, TRUE) }

\* omega0: NaN, -0.0, the smallest subnormal, 0.1, 0.5, 0.75, 1 - ulp, 1.
omega0Vals ==
  << NaN, Zero(-1), MinSub, Lit(1, 13421772, -27, TRUE), Fin(1, 1, -1), Fin(1, 3, -2),
     BelowOne, One >>
\* theta (degrees): -10, 0, 30, 60, 90, 120.
thetaVals == << FNeg(IntF(10)), Zero(1), IntF(30), IntF(60), IntF(90), IntF(120) >>
\* wc: 0, -1, the smallest subnormal, 0.1, 0.46/3.8, 1 (the default), 2.
wcVals ==
  { Zero(1), FNeg(One), MinSub, Lit(1, 13421772, -27, TRUE),
    Lit(1, 16247409, -27, TRUE), One, IntF(2) }

\* The scene: every pairing of the two value lists, one pixel each.
Scene(as, bs) ==
  [i \in 1..(Len(as) * Len(bs)) |->
     [a |-> as[((i - 1) \div Len(bs)) + 1], b |-> bs[((i - 1) % Len(bs)) + 1]]]
\* The ndarrays the caller passes: runs of at most MaxLen adjacent pixels.
Windows(scene) ==
  { SubSeq(scene, i, i + n - 1) : <<i, n>> \in
      { q \in (1..Len(scene)) \X (1..MaxLen) : q[1] + q[2] - 1 <= Len(scene) } }
NdArray(dt, w, fld) ==
  [dt |-> dt, data |-> [i \in 1..Len(w) |-> Cast(dt, IF fld = "a" THEN w[i].a ELSE w[i].b)]]

VARIABLES
  fn,        \* the function called
  pc,        \* the line about to run, "returned" or "raised"
  heap,      \* the ndarrays, by id
  LAI, f_C, x_LAD, isLAIeff,     \* arguments of CalcOmega0_Kustas
  K_be, F, trans,                \* its locals
  omega0,                        \* its result; the argument of CalcOmega_Kustas
  theta, wc,                     \* arguments of CalcOmega_Kustas
  omega,                         \* its local
  ret,                           \* the object returned
  exc,                           \* the exception raised, or "none"
  args                           \* the caller's arguments, as it passed them

vars == << fn, pc, heap, LAI, f_C, x_LAD, isLAIeff, K_be, F, trans, omega0, theta,
           wc, omega, ret, exc, args >>

\* A call CalcOmega0_Kustas(LAI, f_C, x_LAD, isLAIeff): both arguments float64
\* ndarrays ("aa64") or float32 ndarrays ("aa32"), one an ndarray and the other
\* a Python float ("ap", "pa"), or both Python floats ("pp").
InitOmega0 ==
  \E w \in Windows(Scene(LAIVals, fCVals)), kind \in {"aa64", "aa32", "ap", "pa", "pp"},
     x \in xLADVals, eff \in BOOLEAN :
    LET dt == IF kind = "aa32" THEN "f32" ELSE "f64"
        laiArr == kind \in {"aa64", "aa32", "ap"}
        fcArr == kind \in {"aa64", "aa32", "pa"}
    IN /\ fn = "CalcOmega0_Kustas"
       /\ pc = "L77"
       /\ heap = (IF laiArr THEN << NdArray(dt, w, "a") >> ELSE << >>)
                   \o (IF fcArr THEN << NdArray(dt, w, "b") >> ELSE << >>)
       /\ LAI = IF laiArr THEN Arr(1) ELSE PyF(w[1].a)
       /\ f_C = IF fcArr THEN Arr(IF laiArr THEN 2 ELSE 1) ELSE PyF(w[1].b)
       /\ x_LAD = PyF(x)
       /\ isLAIeff = eff
       /\ K_be = None /\ F = None /\ trans = None /\ omega0 = None
       /\ theta = PyF(Zero(1)) /\ wc = None /\ omega = None
       /\ ret = None /\ exc = "none"
       /\ args = [LAI |-> LAI, f_C |-> f_C, x_LAD |-> x_LAD, isLAIeff |-> eff]

\* A call CalcOmega_Kustas(omega0, theta, wc): omega0 and theta float64
\* ndarrays or Python floats, wc a Python float or a float64 ndarray.
InitOmega ==
  \E w \in Windows(Scene(omega0Vals, thetaVals)), kind \in {"aa", "ap", "pa", "pp"},
     c \in wcVals, wcArr \in BOOLEAN :
    LET omArr == kind \in {"aa", "ap"}
        thArr == kind \in {"aa", "pa"}
        nOm == IF omArr THEN 1 ELSE 0
        nTh == IF thArr THEN 1 ELSE 0
    IN /\ fn = "CalcOmega_Kustas"
       /\ pc = "L118"
       /\ heap = (IF omArr THEN << NdArray("f64", w, "a") >> ELSE << >>)
                   \o (IF thArr THEN << NdArray("f64", w, "b") >> ELSE << >>)
                   \o (IF wcArr THEN << [dt |-> "f64", data |-> [i \in 1..Len(w) |-> c]] >>
                       ELSE << >>)
       /\ omega0 = IF omArr THEN Arr(1) ELSE PyF(w[1].a)
       /\ theta = IF thArr THEN Arr(nOm + 1) ELSE PyF(w[1].b)
       /\ wc = IF wcArr THEN Arr(nOm + nTh + 1) ELSE PyF(c)
       /\ omega = None
       /\ LAI = None /\ f_C = None /\ x_LAD = None /\ isLAIeff = FALSE
       /\ K_be = None /\ F = None /\ trans = None
       /\ ret = None /\ exc = "none"
       /\ args = [omega0 |-> omega0, theta |-> theta, wc |-> wc]

Init == InitOmega0 \/ InitOmega

\* A statement with result r: the heap it leaves, and the next line or the
\* exception that ends the call.
Goto(r, next) ==
  /\ heap' = r.h
  /\ exc' = r.exc
  /\ pc' = IF r.exc = "none" THEN next ELSE "raised"
\* The name a statement assigns is bound only when the statement completes.
Bound(r, old) == IF r.exc = "none" THEN r.val ELSE old

L77 ==
  /\ fn = "CalcOmega0_Kustas" /\ pc = "L77"
  /\ \E r \in { Line77(heap, x_LAD) } : K_be' = Bound(r, K_be) /\ Goto(r, "L78")
  /\ UNCHANGED << fn, LAI, f_C, x_LAD, isLAIeff, F, trans, omega0, theta, wc, omega,
                  ret, args >>

L79 ==
  /\ fn = "CalcOmega0_Kustas" /\ pc = "L78" /\ isLAIeff
  /\ \E r \in { Line79(heap, LAI, f_C) } : F' = Bound(r, F) /\ Goto(r, "L83")
  /\ UNCHANGED << fn, LAI, f_C, x_LAD, isLAIeff, K_be, trans, omega0, theta, wc,
                  omega, ret, args >>

L81 ==
  /\ fn = "CalcOmega0_Kustas" /\ pc = "L78" /\ ~isLAIeff
  /\ \E r \in { Line81(heap, LAI) } : F' = Bound(r, F) /\ Goto(r, "L83")
  /\ UNCHANGED << fn, LAI, f_C, x_LAD, isLAIeff, K_be, trans, omega0, theta, wc,
                  omega, ret, args >>

L83 ==
  /\ fn = "CalcOmega0_Kustas" /\ pc = "L83"
  /\ \E r \in { Line83(heap, K_be, F, f_C) } : trans' = Bound(r, trans) /\ Goto(r, "L84")
  /\ UNCHANGED << fn, LAI, f_C, x_LAD, isLAIeff, K_be, F, omega0, theta, wc, omega,
                  ret, args >>

L84 ==
  /\ fn = "CalcOmega0_Kustas" /\ pc = "L84"
  /\ \E r \in { Line84(heap, trans) } : Goto(r, "L86")
  /\ UNCHANGED << fn, LAI, f_C, x_LAD, isLAIeff, K_be, F, trans, omega0, theta, wc,
                  omega, ret, args >>

L86 ==
  /\ fn = "CalcOmega0_Kustas" /\ pc = "L86"
  /\ \E r \in { Line86(heap, trans, F, K_be) } :
       omega0' = Bound(r, omega0) /\ Goto(r, "L87")
  /\ UNCHANGED << fn, LAI, f_C, x_LAD, isLAIeff, K_be, F, trans, theta, wc, omega,
                  ret, args >>

L87 ==
  /\ fn = "CalcOmega0_Kustas" /\ pc = "L87"
  /\ ret' = omega0
  /\ pc' = "returned"
  /\ UNCHANGED << fn, heap, LAI, f_C, x_LAD, isLAIeff, K_be, F, trans, omega0, theta,
                  wc, omega, exc, args >>

L118 ==
  /\ fn = "CalcOmega_Kustas" /\ pc = "L118"
  /\ \E r \in { Line118(heap, wc) } : wc' = Bound(r, wc) /\ Goto(r, "L119")
  /\ UNCHANGED << fn, LAI, f_C, x_LAD, isLAIeff, K_be, F, trans, omega0, theta, omega,
                  ret, args >>

L119 ==
  /\ fn = "CalcOmega_Kustas" /\ pc = "L119"
  /\ \E r \in { Line119(heap, omega0, theta, wc) } :
       omega' = Bound(r, omega) /\ Goto(r, "L120")
  /\ UNCHANGED << fn, LAI, f_C, x_LAD, isLAIeff, K_be, F, trans, omega0, theta, wc,
                  ret, args >>

L120 ==
  /\ fn = "CalcOmega_Kustas" /\ pc = "L120"
  /\ ret' = omega
  /\ pc' = "returned"
  /\ UNCHANGED << fn, heap, LAI, f_C, x_LAD, isLAIeff, K_be, F, trans, omega0, theta,
                  wc, omega, exc, args >>

Next == L77 \/ L79 \/ L81 \/ L83 \/ L84 \/ L86 \/ L87 \/ L118 \/ L119 \/ L120

Spec == Init /\ [][Next]_vars

(***************************************************************************)
(* Properties                                                              *)
(***************************************************************************)
Idx(o) == 1..LenOf(o, heap)
V(o, i) == ElemOf(o, heap, i).v
Positive(v) == v.k \in {"fin", "inf"} /\ v.s = 1
LeZero(v) == v.k = "zero" \/ (v.k \in {"fin", "inf"} /\ v.s = -1)
InUnit(v) == Positive(v) /\ FLe(v, One)
Returned0 == fn = "CalcOmega0_Kustas" /\ pc = "returned"
Returned1 == fn = "CalcOmega_Kustas" /\ pc = "returned"
\* The ndarrays the caller passed.
ArgIds ==
  IF fn = "CalcOmega0_Kustas"
    THEN { o.id : o \in { a \in {args.LAI, args.f_C} : a.tag = "arr" } }
  ELSE { o.id : o \in { a \in {args.omega0, args.theta, args.wc} : a.tag = "arr" } }

\* Rounding tolerance, in units of the last place of 1.0.
TolUlps == 3
OneMinus(dt) == Canon(1, 2 ^ (PrecOf(dt) - 1) - TolUlps, -(PrecOf(dt) - 1))
OnePlus(dt) == Canon(1, 2 ^ (PrecOf(dt) - 1) + TolUlps, -(PrecOf(dt) - 1))
\* v is 1 up to rounding in format dt.
NearOne(dt, v) == FLe(OneMinus(dt), v) /\ FLe(v, OnePlus(dt))
RetFmt(i) == FmtOf(ElemOf(ret, heap, i).d)
Half == Fin(1, 1, -1)
\* The optical depth F*K_be of element i, as line 86 computes it.
Depth(i) == TMul(ElemOf(F, heap, i), ElemOf(K_be, heap, i)).v
\* exp(-K_be*F) of element i, as line 83 computes it, and whether it is a
\* normal number of its format.
Beam(i) == TExp(TMul(TNeg(ElemOf(K_be, heap, i)), ElemOf(F, heap, i)))
IsNormal(t) == t.v.k = "fin" /\ t.v.e + BitLen(t.v.m) - 1 >= EMinOf(FmtOf(t.d))

\* C1: a degenerate call (f_C = 0 with isLAIeff true, F*K_be = 0, or wc = 0)
\* raises no division error and returns a non-finite value for each
\* degenerate element, for scalars and arrays alike.
C1_DegenerateReturnsNonFinite ==
  /\ (fn = "CalcOmega0_Kustas" /\ args.isLAIeff
        /\ \E i \in Idx(args.f_C) : V(args.f_C, i).k = "zero")
       => /\ exc # "ZeroDivisionError"
          /\ pc = "returned" =>
               \A i \in Idx(ret) : V(args.f_C, i).k = "zero" => ~IsFinite(V(ret, i))
  /\ Returned0 => \A i \in Idx(ret) : Depth(i).k = "zero" => ~IsFinite(V(ret, i))
  /\ (fn = "CalcOmega_Kustas" /\ \E i \in Idx(args.wc) : V(args.wc, i).k = "zero")
       => /\ exc # "ZeroDivisionError"
          /\ pc = "returned" => \A i \in Idx(ret) : ~IsFinite(V(ret, i))

\* C2: a call of CalcOmega0_Kustas whose LAI and f_C are both plain scalars
\* (and whose x_LAD gives a K_be) never raises, and returns a float.
C2_ScalarsAccepted ==
  (fn = "CalcOmega0_Kustas" /\ args.LAI.tag = "py" /\ args.f_C.tag = "py"
     /\ Line77(heap, args.x_LAD).exc = "none")
    => /\ pc # "raised"
       /\ pc = "returned" => ret.tag \in {"py", "np"}

\* C3: at theta = 0 CalcOmega_Kustas returns omega0 itself, for every omega0
\* in (0,1] and every wc that makes the exponent 3.8 - 0.46/wc positive, the
\* default wc = 1 among them.
C3_NadirReturnsOmega0 ==
  Returned1 =>
    \A i \in Idx(ret) :
      ( /\ InUnit(V(args.omega0, i))
        /\ V(args.theta, i).k = "zero"
        /\ \/ Positive(Exponent119(ElemOf(wc, heap, i)).v)
           \/ V(args.wc, i) = One )
      => V(ret, i) = V(args.omega0, i)
C3_Witness ==
  /\ Returned1
  /\ \E i \in Idx(ret) :
       /\ V(args.omega0, i) = Lit(1, 13421772, -27, TRUE)
       /\ V(args.theta, i).k = "zero"
       /\ V(args.wc, i) = IntF(2)
       /\ Positive(Exponent119(ElemOf(wc, heap, i)).v)
       /\ V(ret, i) = V(args.omega0, i)

\* C4 as written: with omega0 = 1 the value returned is 1 for any theta and
\* any wc.
C4_UnityAnyTheta ==
  Returned1 => \A i \in Idx(ret) : V(args.omega0, i) = One => V(ret, i) = One
\* C4: with omega0 = 1 and theta >= 0 the value returned is 1, for every wc
\* with which the call returns (theta > 90 and non-positive exponents
\* included).
C4_UnityNonNegativeTheta ==
  Returned1 =>
    \A i \in Idx(ret) :
      (V(args.omega0, i) = One /\ FLe(Zero(1), V(args.theta, i))) => V(ret, i) = One
C4_Witness ==
  /\ Returned1
  /\ \E i \in Idx(ret) :
       /\ V(args.omega0, i) = One
       /\ V(args.theta, i) = IntF(120)
       /\ LeZero(Exponent119(ElemOf(wc, heap, i)).v)
       /\ V(ret, i) = One

\* C5 as written: with f_C = 1 the value returned is 1 (up to rounding) for
\* every LAI > 0 and x_LAD > 0, under either value of isLAIeff.
C5_FullCoverUnity ==
  Returned0 =>
    \A i \in Idx(ret) :
      ( /\ V(args.f_C, i) = One
        /\ Positive(V(args.LAI, i))
        /\ Positive(args.x_LAD.v) )
      => NearOne(RetFmt(i), V(ret, i))
\* C5: with f_C = 1 the value returned is 1 up to rounding for every LAI > 0
\* and x_LAD > 0 whose optical depth F*K_be is at least 1/2 and whose
\* exp(-K_be*F) is a normal number.
C5_FullCoverUnityInRange ==
  Returned0 =>
    \A i \in Idx(ret) :
      ( /\ V(args.f_C, i) = One
        /\ Positive(V(args.LAI, i))
        /\ Positive(args.x_LAD.v)
        /\ FLe(Half, Depth(i))
        /\ IsNormal(Beam(i)) )
      => NearOne(RetFmt(i), V(ret, i))
C5_Witness ==
  /\ Returned0
  /\ args.x_LAD.v = One
  /\ \E i \in Idx(ret) :
       /\ V(args.f_C, i) = One
       /\ V(args.LAI, i) = IntF(2)
       /\ FLe(Half, Depth(i))
       /\ IsNormal(Beam(i))
       /\ NearOne(RetFmt(i), V(ret, i))

\* C6 as written: for LAI > 0, f_C in (0,1] and x_LAD > 0 the value returned
\* is finite and positive when trans > 0 after the clamp, and at most 1 (up
\* to rounding).
C6_FinitePositiveUnit ==
  Returned0 =>
    \A i \in Idx(ret) :
      ( /\ Positive(V(args.LAI, i))
        /\ InUnit(V(args.f_C, i))
        /\ Positive(args.x_LAD.v)
        /\ Positive(V(trans, i)) )
      => /\ IsFinite(V(ret, i))
         /\ Positive(V(ret, i))
         /\ FLe(V(ret, i), OnePlus(RetFmt(i)))
\* C6: for LAI > 0, f_C in (0,1] and x_LAD > 0 with a nonzero optical depth
\* F*K_be the value returned is finite and not below zero (a zero where trans
\* rounds to 1), and at most 1 up to rounding where the depth is at least 1/2.
C6_FiniteNonNegative ==
  Returned0 =>
    \A i \in Idx(ret) :
      ( /\ Positive(V(args.LAI, i))
        /\ InUnit(V(args.f_C, i))
        /\ Positive(args.x_LAD.v)
        /\ Positive(Depth(i)) )
      => /\ IsFinite(V(ret, i))
         /\ V(ret, i).k = "zero" \/ Positive(V(ret, i))
         /\ FLe(Half, Depth(i)) => FLe(V(ret, i), OnePlus(RetFmt(i)))
C6_Witness ==
  /\ Returned0
  /\ args.x_LAD.v = One
  /\ \E i \in Idx(ret) :
       /\ V(args.LAI, i) = IntF(3)
       /\ V(args.f_C, i) = Half
       /\ FLe(Half, Depth(i))
       /\ Positive(V(ret, i))
       /\ FLt(V(ret, i), One)

\* The value line 84 stores, in the array's format.
Floor84(dt) == Cast(dt, Lit(1, 11150372, -143, TRUE))

\* C7: no step of either function changes an ndarray the caller passed, and
\* an ndarray returned is none of them.
C7_ArgumentsUntouched ==
  /\ [][\A id \in ArgIds : heap'[id] = heap[id]]_vars
  /\ [](pc = "returned" =>
          /\ ret.tag = "arr" <=> ArgIds # {}
          /\ ret.tag = "arr" => ret.id \notin ArgIds)
C7_Witness ==
  /\ Returned0
  /\ args.LAI.tag = "arr" /\ args.f_C.tag = "arr"
  /\ ret.tag = "arr" /\ ret.id \notin ArgIds
  /\ \E i \in Idx(trans) : V(trans, i) = Floor84(heap[trans.id].dt)

\* C8: line 84 replaces exactly the elements of trans that are <= 0 by 1e-36
\* and leaves every other element as it was; no element is <= 0 when line 86
\* takes the logarithm.
C8_ClampExactly ==
  /\ [][(pc = "L84" /\ pc' = "L86") =>
          \A i \in Idx(trans) :
            heap'[trans.id].data[i] =
              IF LeZero(V(trans, i)) THEN Floor84(heap[trans.id].dt) ELSE V(trans, i)]_vars
  /\ [](pc = "L86" => \A i \in Idx(trans) : ~LeZero(V(trans, i)))
C8_Witness ==
  /\ pc = "L86"
  /\ \E i \in Idx(trans), j \in Idx(trans) :
       /\ V(args.f_C, i) = One
       /\ V(trans, i) = Floor84(heap[trans.id].dt)
       /\ Positive(V(trans, j))
       /\ V(trans, j) # Floor84(heap[trans.id].dt)

\* The caller's LAI/f_C, a new ndarray.
CallerDiv(h, lai, fc) ==
  Alloc(h, TRUE, LenOf(lai, h),
        [i \in 1..LenOf(lai, h) |-> TDiv(ElemOf(lai, h, i), ElemOf(fc, h, i))])
\* CalcOmega0_Kustas(lai, f_C, x_LAD, isLAIeff=False) from line 81 on, as a
\* composition of its statements.
Run86(r, f, kbe) == Line86(r.h, r.val, f, kbe)
Run84(r, f, kbe) == Run86(Line84(r.h, r.val), f, kbe)
Run83(r, fc, kbe) == Run84(Line83(r.h, kbe, r.val, fc), r.val, kbe)
Run81(r, fc, kbe) == Run83(Line81(r.h, r.val), fc, kbe)
DataOf(r) == r.h[r.val.id].data
FalseOfQuotient == DataOf(Run81(CallerDiv(heap, args.LAI, args.f_C), args.f_C, K_be))

\* C9 as written: for every ndarray LAI and f_C # 0 the call with isLAIeff
\* true returns what the call on LAI/f_C with isLAIeff false returns.
C9_FlagEquivalence ==
  ( /\ Returned0 /\ args.isLAIeff /\ args.LAI.tag = "arr"
    /\ \A i \in Idx(ret) : V(args.f_C, i).k # "zero" )
  => heap[ret.id].data = FalseOfQuotient
\* C9: for every float64 ndarray LAI and f_C # 0 the call with isLAIeff true
\* returns what the call on LAI/f_C with isLAIeff false returns.
C9_FlagEquivalenceFloat64 ==
  ( /\ Returned0 /\ args.isLAIeff /\ args.LAI.tag = "arr"
    /\ heap[args.LAI.id].dt = "f64"
    /\ \A i \in Idx(ret) : V(args.f_C, i).k # "zero" )
  => heap[ret.id].data = FalseOfQuotient
C9_Witness ==
  /\ Returned0 /\ args.isLAIeff /\ args.LAI.tag = "arr"
  /\ heap[args.LAI.id].dt = "f64"
  /\ args.x_LAD.v = One
  /\ \E i \in Idx(ret) :
       /\ V(args.LAI, i) = IntF(3) /\ V(args.f_C, i) = Half
       /\ Positive(V(ret, i))
  /\ \A i \in Idx(ret) : V(args.f_C, i).k # "zero"
  /\ heap[ret.id].data = FalseOfQuotient

\* C10: for omega0 in (0,1], theta in [0,90] and wc > 0 the value returned
\* lies between omega0 and 1.
C10_BetweenNadirAndOne ==
  Returned1 =>
    \A i \in Idx(ret) :
      ( /\ InUnit(V(args.omega0, i))
        /\ FLe(Zero(1), V(args.theta, i)) /\ FLe(V(args.theta, i), IntF(90))
        /\ Positive(V(args.wc, i)) )
      => FLe(V(args.omega0, i), V(ret, i)) /\ FLe(V(ret, i), One)
C10_Witness ==
  /\ Returned1
  /\ \E i \in Idx(ret) :
       /\ V(args.omega0, i) = Half
       /\ V(args.theta, i) = IntF(60)
       /\ V(args.wc, i) = One
       /\ FLt(V(args.omega0, i), V(ret, i)) /\ FLt(V(ret, i), One)

=============================================================================
